---- MODULE Spec2Model ----
(***************************************************************************)
(* Model of the IND320 Streamlit application: the memoized loaders of the  *)
(* four page scripts (st.cache_data / st.cache_resource), the month-range  *)
(* resolution of the weather page and the load/clean/aggregate pipeline of *)
(* the energy-production page.                                             *)
(*                                                                         *)
(* Strings that the code formats, splits, sorts or looks up are sequences  *)
(* of one-character strings, so that formatting and parsing are computed   *)
(* and not assumed.                                                        *)
(***************************************************************************)
EXTENDS Integers, Sequences, FiniteSets, TLC

\* ------------------------------------------------------------------ bounds
NumSessions == 2
MaxRuns == 2
MaxWeatherRows == 4
MaxRecords == 3

\* ------------------------------------------------------- generic helpers
Range(f) == {f[i] : i \in DOMAIN f}

SeqsUpTo(S, n) == UNION {[1..k -> S] : k \in 0..n}

RECURSIVE SumSeq(_)
SumSeq(q) == IF q = <<>> THEN 0 ELSE Head(q) + SumSeq(Tail(q))

\* The subsequence of q at the positions where keep is TRUE (boolean-mask
\* indexing df[mask]); the order of arrival is kept.
RECURSIVE Mask(_, _)
Mask(q, keep) ==
    IF q = <<>> THEN <<>>
    ELSE (IF Head(keep) THEN <<Head(q)>> ELSE <<>>) \o Mask(Tail(q), Tail(keep))

\* Python's q[a:b] for 0 <= a, with 0-based a and exclusive b.
Slice(q, a, b) ==
    LET hi == IF b > Len(q) THEN Len(q) ELSE b
    IN  IF hi <= a THEN <<>> ELSE [i \in 1..(hi - a) |-> q[a + i]]

\* Python's list.index: the 0-based position of the first occurrence, or -1
\* where the code raises ValueError.
ListIndex(q, x) ==
    IF \E i \in DOMAIN q : q[i] = x
    THEN (CHOOSE i \in DOMAIN q : q[i] = x /\ \A j \in 1..(i - 1) : q[j] # x) - 1
    ELSE -1

\* ------------------------------------------------------- character strings
Digits == <<"0", "1", "2", "3", "4", "5", "6", "7", "8", "9">>

DigitChar(d) == Digits[d + 1]

IsDigit(c) == \E d \in 0..9 : Digits[d + 1] = c

DigitVal(c) == CHOOSE d \in 0..9 : Digits[d + 1] = c

\* Code points of the characters that occur in a '%Y-%m' key.
Ord(c) == IF c = "-" THEN 45 ELSE 48 + DigitVal(c)

\* Python's str < str: lexicographic by code point, a proper prefix first.
RECURSIVE StrLess(_, _)
StrLess(a, b) ==
    IF a = <<>> THEN b # <<>>
    ELSE IF b = <<>> THEN FALSE
    ELSE IF Head(a) # Head(b) THEN Ord(Head(a)) < Ord(Head(b))
    ELSE StrLess(Tail(a), Tail(b))

\* sorted(...) of a set of distinct strings.
RECURSIVE SortedStrs(_)
SortedStrs(S) ==
    IF S = {} THEN <<>>
    ELSE LET m == CHOOSE x \in S : \A y \in S \ {x} : StrLess(x, y)
         IN  <<m>> \o SortedStrs(S \ {m})

\* str.split(sep): the pieces between the occurrences of the character sep.
RECURSIVE SplitAcc(_, _, _)
SplitAcc(str, sep, cur) ==
    IF str = <<>> THEN <<cur>>
    ELSE IF Head(str) = sep THEN <<cur>> \o SplitAcc(Tail(str), sep, <<>>)
    ELSE SplitAcc(Tail(str), sep, Append(cur, Head(str)))

Split(str, sep) == SplitAcc(str, sep, <<>>)

\* ------------------------------------------------------------ time values
\* A missing time (pandas NaT) and the missing value its formatting gives (NaN).
NaT == [year |-> 0, month |-> 0]
NaN == <<"NaN">>

Years == {2020, 2021}
Months == {1, 12}

Timestamps == [year : Years, month : Months]

\* '%Y': the year in four digits.
Year4(y) ==
    <<DigitChar(y \div 1000), DigitChar((y \div 100) % 10),
      DigitChar((y \div 10) % 10), DigitChar(y % 10)>>

\* '%m': the month number zero-padded to two digits.
Pad2(n) == <<DigitChar(n \div 10), DigitChar(n % 10)>>

\* dt.strftime('%Y-%m'); a missing time formats to a missing value.
StrftimeYm(t) == IF t = NaT THEN NaN ELSE Year4(t.year) \o <<"-">> \o Pad2(t.month)

\* datetime.strptime(month_num, '%m'): the month number, 0 where it raises.
StrptimeM(str) ==
    IF Len(str) \in {1, 2} /\ \A i \in DOMAIN str : IsDigit(str[i])
    THEN LET n == IF Len(str) = 1 THEN DigitVal(str[1])
                  ELSE 10 * DigitVal(str[1]) + DigitVal(str[2])
         IN  IF n \in 1..12 THEN n ELSE 0
    ELSE 0

\* strftime('%b'): the abbreviated month name.
MonthAbbrev ==
    << <<"J", "a", "n">>, <<"F", "e", "b">>, <<"M", "a", "r">>, <<"A", "p", "r">>,
       <<"M", "a", "y">>, <<"J", "u", "n">>, <<"J", "u", "l">>, <<"A", "u", "g">>,
       <<"S", "e", "p">>, <<"O", "c", "t">>, <<"N", "o", "v">>, <<"D", "e", "c">> >>

StrftimeB(m) == MonthAbbrev[m]

\* ------------------------------------------------- weather page (third page)
\* The value a loader returns: None, a DataFrame (its rows in arrival order)
\* or the MongoDB client.
NoneValue == [kind |-> "None", rows |-> <<>>]
DataFrame(rows) == [kind |-> "df", rows |-> rows]
ClientValue == [kind |-> "client", rows |-> <<>>]

\* The CSV source: the file is missing, or it holds rows with a time cell
\* (empty cells parse to NaT).
MissingFile == [exists |-> FALSE, rows |-> <<>>]
CsvFile(rows) == [exists |-> TRUE, rows |-> rows]

\* third_page.load_data: read the CSV, parse 'time', add the '%Y-%m' month
\* column; a missing file gives None.
ThirdLoadData(file) ==
    IF ~file.exists THEN NoneValue
    ELSE DataFrame([i \in DOMAIN file.rows |->
            [idx |-> i - 1, time |-> file.rows[i], month |-> StrftimeYm(file.rows[i])]])

\* streamlit_app.load_weather_data and second_page.load_data: the same without
\* the month column.
WeatherLoadData(file) ==
    IF ~file.exists THEN NoneValue
    ELSE DataFrame([i \in DOMAIN file.rows |-> [idx |-> i - 1, time |-> file.rows[i]]])

\* months = sorted(df['month'].unique())
UniqueMonths(rows) == {rows[i].month : i \in DOMAIN rows}

\* (mutant) the label without the year.
DisplayNameNoYear(year, month_abbrev) == month_abbrev

\* Convert '2020-01' to 'Jan 2020'.
DisplayNameOf(year, month_abbrev) == month_abbrev \o <<" ">> \o year

DisplayName(month_str) ==
    LET parts == Split(month_str, "-")
    IN  DisplayNameOf(parts[1], StrftimeB(StrptimeM(parts[2])))

\* The loop that fills month_mapping (a dict: a later key overwrites) and
\* month_display_names (a list: appended in the order of months).
RECURSIVE MonthLoop(_, _, _)
MonthLoop(months, mapping, names) ==
    IF months = <<>> THEN [mapping |-> mapping, names |-> names]
    ELSE LET month_str == Head(months)
             display_name == DisplayName(month_str)
             updated == [l \in DOMAIN mapping \cup {display_name} |->
                            IF l = display_name THEN month_str ELSE mapping[l]]
         IN  MonthLoop(Tail(months), updated, Append(names, display_name))

EmptyMapping == [l \in {} |-> <<>>]

\* The widget value: a single display label or a pair of them.
SingleSel(label) == [kind |-> "str", start |-> label, end |-> <<>>]
PairSel(a, b) == [kind |-> "tuple", start |-> a, end |-> b]

\* (mutant) the slice stops before the end label.
SliceEndExclusive(end_idx) == end_idx

\* The end of the slice month_display_names[start_idx:end_idx + 1].
SliceEnd(end_idx) == end_idx + 1

\* (mutant) the slice taken from the end label's index to the start label's.
ResolveSelectionSwapped(sel, mapping, names) ==
    IF sel.kind = "str"
    THEN IF sel.start \in DOMAIN mapping
         THEN [error |-> "", selected_months |-> <<mapping[sel.start]>>]
         ELSE [error |-> "KeyError", selected_months |-> <<>>]
    ELSE LET start_idx == ListIndex(names, sel.start)
             end_idx == ListIndex(names, sel.end)
         IN  IF start_idx < 0 \/ end_idx < 0
             THEN [error |-> "ValueError", selected_months |-> <<>>]
             ELSE LET selected_display_range == Slice(names, end_idx, SliceEnd(start_idx))
                  IN  [error |-> "",
                       selected_months |->
                           [i \in DOMAIN selected_display_range |->
                               mapping[selected_display_range[i]]]]

\* (mutant) lookups that skip a label they do not find (dict.get, a guarded
\* index) instead of raising.
ResolveSelectionLenient(sel, mapping, names) ==
    IF sel.kind = "str"
    THEN IF sel.start \in DOMAIN mapping
         THEN [error |-> "", selected_months |-> <<mapping[sel.start]>>]
         ELSE [error |-> "", selected_months |-> <<>>]
    ELSE LET start_idx == ListIndex(names, sel.start)
             end_idx == ListIndex(names, sel.end)
         IN  IF start_idx < 0 \/ end_idx < 0
             THEN [error |-> "", selected_months |-> <<>>]
             ELSE LET selected_display_range == Slice(names, start_idx, SliceEnd(end_idx))
                  IN  [error |-> "",
                       selected_months |->
                           [i \in DOMAIN selected_display_range |->
                               mapping[selected_display_range[i]]]]

\* Convert the display selection back to month values: the list
\* selected_months, or the exception the lookup raises.
ResolveSelection(sel, mapping, names) ==
    IF sel.kind = "str"
    THEN IF sel.start \in DOMAIN mapping
         THEN [error |-> "", selected_months |-> <<mapping[sel.start]>>]
         ELSE [error |-> "KeyError", selected_months |-> <<>>]
    ELSE LET start_idx == ListIndex(names, sel.start)
             end_idx == ListIndex(names, sel.end)
         IN  IF start_idx < 0 \/ end_idx < 0
             THEN [error |-> "ValueError", selected_months |-> <<>>]
             ELSE LET selected_display_range == Slice(names, start_idx, SliceEnd(end_idx))
                  IN  [error |-> "",
                       selected_months |->
                           [i \in DOMAIN selected_display_range |->
                               mapping[selected_display_range[i]]]]

\* filtered_df = df[df['month'].isin(selected_months)]
FilterMonths(rows, selected_months) ==
    Mask(rows, [i \in DOMAIN rows |-> rows[i].month \in Range(selected_months)])

\* What one run of the third page leaves: how it ended, the mapping it
\* built and the rows it selected.
NoOutput ==
    [status |-> "none", error |-> "", months |-> <<>>, month_mapping |-> EmptyMapping,
     month_display_names |-> <<>>, selected_months |-> <<>>, filtered_df |-> <<>>,
     sel |-> SingleSel(<<>>)]

\* The script body of the third page after load_data returned df, for the
\* widget value sel (DefaultSel: the slider's default, the first label).
DefaultSel == [kind |-> "default", start |-> <<>>, end |-> <<>>]

ThirdPageBody(df, sel) ==
    IF df.kind = "None"
    THEN [NoOutput EXCEPT !.status = "unable", !.sel = sel]
    ELSE IF NaN \in UniqueMonths(df.rows)
    THEN \* sorted() of strings mixed with NaN, or NaN.split('-')
         [NoOutput EXCEPT !.status = "failed", !.sel = sel,
            !.error = IF Cardinality(UniqueMonths(df.rows)) > 1
                      THEN "TypeError" ELSE "AttributeError"]
    ELSE LET months == SortedStrs(UniqueMonths(df.rows))
             built == MonthLoop(months, EmptyMapping, <<>>)
             base == [NoOutput EXCEPT !.months = months, !.sel = sel,
                                      !.month_mapping = built.mapping,
                                      !.month_display_names = built.names]
         IN  IF built.names = <<>>
             THEN \* value=month_display_names[0] of an empty list
                  [base EXCEPT !.status = "failed", !.error = "IndexError"]
             ELSE LET value == IF sel.kind = "default"
                               THEN SingleSel(built.names[1]) ELSE sel
                      res == ResolveSelection(value, built.mapping, built.names)
                  IN  IF res.error # ""
                      THEN [base EXCEPT !.status = "failed", !.error = res.error]
                      ELSE [base EXCEPT !.status = "ok",
                              !.selected_months = res.selected_months,
                              !.filtered_df = FilterMonths(df.rows, res.selected_months)]

\* -------------------------------------------- energy page (fourth page)
\* A field of a MongoDB document: absent, a list, or a scalar. A scalar time
\* is the month number of a parseable timestamp, 0 for a string that does
\* not parse; text fields hold names, quantityKwh holds a number. The
\* documents drawn below always carry priceArea, productionGroup and
\* quantityKwh (as a scalar or as a list); the time fields may be absent.
AbsentT == [shape |-> "absent", v |-> 0]
ListT == [shape |-> "list", v |-> 0]
Time(m) == [shape |-> "scalar", v |-> m]
BadTime == [shape |-> "scalar", v |-> 0]
ListS == [shape |-> "list", v |-> ""]
Text(name) == [shape |-> "scalar", v |-> name]
ListN == [shape |-> "list", v |-> 0]
Num(n) == [shape |-> "scalar", v |-> n]

Doc(st, et, lt, pa, pg, q) ==
    [startTime |-> st, endTime |-> et, lastUpdatedTime |-> lt,
     priceArea |-> pa, productionGroup |-> pg, quantityKwh |-> q]

\* The documents the record source is drawn from: well-formed readings,
\* and the malformed shapes the loader has to deal with.
RowShapes ==
    { Doc(Time(1), Time(1), Time(1), Text("NO1"), Text("hydro"), Num(2)),
      Doc(Time(1), BadTime, Time(1), Text("NO1"), Text("wind"), Num(2)),
      Doc(Time(2), Time(2), Time(2), Text("NO2"), Text("hydro"), Num(0)),
      Doc(ListT, Time(1), Time(1), Text("NO1"), Text("hydro"), Num(1)),
      Doc(Time(1), Time(1), Time(1), ListS, Text("wind"), Num(1)),
      Doc(BadTime, Time(1), Time(1), Text("NO2"), Text("wind"), Num(1)),
      Doc(AbsentT, Time(1), Time(1), Text("NO1"), Text("hydro"), Num(1)),
      Doc(Time(1), AbsentT, AbsentT, Text("NO2"), Text("wind"), Num(3)) }

ScalarColumns ==
    <<"startTime", "endTime", "lastUpdatedTime", "priceArea", "productionGroup",
      "quantityKwh">>

\* pd.DataFrame(records) has a column for every key some document carries.
HasColumn(records, col) == \E i \in DOMAIN records : records[i][col].shape # "absent"

\* (mutant) only startTime is looked at.
is_valid_record_StartOnly(records, row) == row.startTime.shape # "list"

\* (mutant) a timestamp that does not parse makes the record invalid too.
is_valid_record_Strict(records, row) ==
    /\ \A c \in DOMAIN ScalarColumns : row[ScalarColumns[c]].shape # "list"
    /\ row.startTime.shape = "scalar" /\ row.startTime.v # 0

\* is_valid_record: no declared column that the frame has holds a list.
is_valid_record(records, row) ==
    \A c \in DOMAIN ScalarColumns :
        LET col == ScalarColumns[c]
        IN  ~(HasColumn(records, col) /\ row[col].shape = "list")

\* pd.to_datetime(..., errors='coerce'): a missing or unparseable value
\* becomes NaT (0), a parseable one keeps its month.
ToDatetime(field) == IF field.shape = "scalar" THEN field.v ELSE 0

\* The full month names of the C locale, which LC_TIME is left at.
MonthNames ==
    <<"January", "February", "March", "April", "May", "June", "July", "August",
      "September", "October", "November", "December">>

\* (mutant) the abbreviated name, as '%b' gives it.
StrftimeAbbrevB(m) == MonthAbbrev[m]

\* dt.strftime('%B'): the full month name of month m.
StrftimeLongB(m) == MonthNames[m]

\* The month_names list of the page script.
month_names ==
    <<"January", "February", "March", "April", "May", "June",
      "July", "August", "September", "October", "November", "December">>

\* Rows whose startTime is NaT go (dropna(subset=['startTime'])).
HasStartTime(row) == ToDatetime(row.startTime) # 0

\* The count the warning "Filtered out N invalid records" reports.
FilteredOutCount(initial_count, valid_count) == initial_count - valid_count

\* fourth_page.load_data on the documents the collection returns: st.stop()
\* on no documents or on a failing datetime step, else the cleaned frame;
\* warned is the count of the st.warning (0: no warning shown).
FourthLoadData(records) ==
    IF records = <<>>
    THEN [stopped |-> TRUE, error |-> "No data found in MongoDB", warned |-> 0,
          value |-> NoneValue]
    ELSE LET valid == Mask(records,
                           [i \in DOMAIN records |-> is_valid_record(records, records[i])])
             initial_count == Len(records)
             warned == IF Len(valid) < initial_count
                       THEN FilteredOutCount(initial_count, Len(valid)) ELSE 0
             converted == Mask(valid, [i \in DOMAIN valid |-> HasStartTime(valid[i])])
         IN  IF \E col \in {"startTime", "endTime", "lastUpdatedTime"} :
                    ~HasColumn(records, col)
             THEN [stopped |-> TRUE, error |-> "Error processing datetime columns",
                   warned |-> warned, value |-> NoneValue]
             ELSE [stopped |-> FALSE, error |-> "", warned |-> warned,
                   value |-> DataFrame([i \in DOMAIN converted |->
                       [idx |-> i - 1,
                        startTime |-> ToDatetime(converted[i].startTime),
                        endTime |-> ToDatetime(converted[i].endTime),
                        lastUpdatedTime |-> ToDatetime(converted[i].lastUpdatedTime),
                        priceArea |-> converted[i].priceArea,
                        productionGroup |-> converted[i].productionGroup,
                        quantityKwh |-> converted[i].quantityKwh,
                        month |-> ToDatetime(converted[i].startTime),
                        month_name |-> StrftimeLongB(ToDatetime(converted[i].startTime))]])]

\* The price-area and production-group names, in ascending str order.
NameOrder == <<"NO1", "NO2", "hydro", "wind">>

NameRank(name) == CHOOSE i \in DOMAIN NameOrder : NameOrder[i] = name

\* sorted(...) of a set of names.
RECURSIVE SortedNames(_)
SortedNames(S) ==
    IF S = {} THEN <<>>
    ELSE LET m == CHOOSE x \in S : \A y \in S : NameRank(x) <= NameRank(y)
         IN  <<m>> \o SortedNames(S \ {m})

\* sorted(df[col].unique())
UniqueSorted(rows, col) == SortedNames({rows[i][col].v : i \in DOMAIN rows})

\* sort_values('total_production', ascending=False): the default kind is
\* 'quicksort', which is not a stable sort. The frame comes out descending
\* by total; where the rows of equal total land is up to the argsort the
\* numpy build runs: in the order they had (stable), or not (the other
\* order, for the two groups a tie can have here).
RECURSIVE SortByTotalDesc(_, _)
SortByTotalDesc(q, stable) ==
    IF q = <<>> THEN <<>>
    ELSE LET top == {i \in DOMAIN q :
                        \A j \in DOMAIN q : q[j].total_production <= q[i].total_production}
             i == IF stable THEN CHOOSE i \in top : \A j \in top : i <= j
                  ELSE CHOOSE i \in top : \A j \in top : j <= i
         IN  <<q[i]>> \o SortByTotalDesc([j \in 1..(Len(q) - 1) |->
                                              IF j < i THEN q[j] ELSE q[j + 1]], stable)

\* (mutant) the group sums taken over every price area.
GroupSumsAllAreas(rows, selected_area) ==
    LET groups == UniqueSorted(rows, "productionGroup")
    IN  [g \in DOMAIN groups |->
            [productionGroup |-> groups[g],
             total_production |->
                 SumSeq([i \in DOMAIN rows |->
                            IF rows[i].productionGroup.v = groups[g]
                            THEN rows[i].quantityKwh.v ELSE 0])]]

\* area_data.groupby('productionGroup')['quantityKwh'].sum(): one row per
\* group of the area, in ascending group order.
GroupSums(rows, selected_area) ==
    LET area_data == Mask(rows, [i \in DOMAIN rows |-> rows[i].priceArea.v = selected_area])
        groups == UniqueSorted(area_data, "productionGroup")
    IN  [g \in DOMAIN groups |->
            [productionGroup |-> groups[g],
             total_production |->
                 SumSeq([i \in DOMAIN area_data |->
                            IF area_data[i].productionGroup.v = groups[g]
                            THEN area_data[i].quantityKwh.v ELSE 0])]]

\* total_production / total * 100 in floating point: a quotient, or the
\* NaN (0/0) and inf (x/0) that the division by a zero total gives.
Percentage(total_production, total) ==
    IF total # 0 THEN [kind |-> "finite", num |-> total_production * 100, den |-> total]
    ELSE IF total_production = 0 THEN [kind |-> "nan", num |-> 0, den |-> 0]
    ELSE [kind |-> "inf", num |-> total_production, den |-> 0]

\* production_summary: the group sums sorted by total, with percentages.
ProductionSummary(rows, selected_area, stable) ==
    LET sorted == SortByTotalDesc(GroupSums(rows, selected_area), stable)
        total == SumSeq([i \in DOMAIN sorted |-> sorted[i].total_production])
    IN  [i \in DOMAIN sorted |->
            [productionGroup |-> sorted[i].productionGroup,
             total_production |-> sorted[i].total_production,
             percentage |-> Percentage(sorted[i].total_production, total)]]

\* (mutant) an empty selection becomes the last production group.
SelectedGroupsLast(selection, production_groups) ==
    IF selection = <<>> THEN <<production_groups[Len(production_groups)]>> ELSE selection

\* "Ensure at least one group is selected": an empty selection becomes the
\* first production group.
SelectedGroups(selection, production_groups) ==
    IF selection = <<>> THEN <<production_groups[1]>> ELSE selection

\* The rows of the line plot.
FilterProduction(rows, selected_area, selected_groups, selected_month) ==
    Mask(rows, [i \in DOMAIN rows |->
                   /\ rows[i].priceArea.v = selected_area
                   /\ rows[i].productionGroup.v \in Range(selected_groups)
                   /\ rows[i].month = selected_month])

NoArea == ""

NoFourthOutput ==
    [status |-> "none", error |-> "", price_areas |-> <<>>, production_groups |-> <<>>,
     selected_area |-> NoArea, production_summary |-> <<>>, pills |-> <<>>,
     selected_groups |-> <<>>, selected_month |-> 0, filtered_df |-> <<>>]

\* The script body of the fourth page after load_data returned df, for the
\* radio choice area (NoArea when there is nothing to choose), the pills
\* selection and the month of the selectbox; stable is how the argsort of
\* the build treats equal totals.
FourthPageBody(df, area, selection, selected_month, stable) ==
    LET price_areas == UniqueSorted(df.rows, "priceArea")
        production_groups == UniqueSorted(df.rows, "productionGroup")
        base == [NoFourthOutput EXCEPT !.price_areas = price_areas,
                    !.production_groups = production_groups,
                    !.selected_area = area,
                    !.pills = selection,
                    !.production_summary = ProductionSummary(df.rows, area, stable)]
    IN  IF selection = <<>> /\ production_groups = <<>>
        THEN \* production_groups[0] of an empty list
             [base EXCEPT !.status = "failed", !.error = "IndexError"]
        ELSE LET selected_groups == SelectedGroups(selection, production_groups)
             IN  [base EXCEPT !.status = "ok",
                     !.selected_groups = selected_groups,
                     !.selected_month = selected_month,
                     !.filtered_df = FilterProduction(df.rows, area, selected_groups,
                                                      selected_month)]

\* ------------------------------------------------------------------ state
VARIABLES
    csv,            \* assets/open-meteo-subset.csv
    records,        \* the documents of the MongoDB collection
    mongoOk,        \* the secrets and the cluster address resolve
    argsortStable,  \* the build's quicksort argsort keeps equal keys in order
    cache,          \* per memoized function: its stored result, if any
    lock,           \* per memoized function: the session computing it, or 0
    page,           \* per session: the page script it runs
    pc,             \* per session: where the script run is
    stack,          \* per session: the memoized calls in progress
    local,          \* per session: df, what the loader returned to the script
    diag,           \* per session: the warning count and error text shown
    session_state,  \* per session: st.session_state.weather_data
    third,          \* per session: what the third page's body left
    fourth,         \* per session: what the fourth page's body left
    runs,           \* per memoized function: producer bodies entered
    aborts,         \* per memoized function: producer bodies left by st.stop/raise
    hits,           \* per memoized function: calls answered from the cache
    waited,         \* per memoized function: hits found after waiting on the lock
    batchRuns,      \* per memoized function: bodies entered since no call was open
    scriptRuns,     \* script runs started
    aggRuns,        \* per price area: group-sum computations run
    summaries       \* per price area: the distinct production summaries produced

vars == <<csv, records, mongoOk, argsortStable, cache, lock, page, pc, stack, local, diag,
          session_state, third, fourth, runs, aborts, hits, waited, batchRuns,
          scriptRuns, aggRuns, summaries>>

envVars == <<csv, records, mongoOk, argsortStable>>
outVars == <<third, fourth>>
aggVars == <<aggRuns, summaries>>

Sessions == 1..NumSessions

K_weather == "streamlit_app.load_weather_data"
K_second == "second_page.load_data"
K_third == "third_page.load_data"
K_client == "fourth_page.get_mongo_client"
K_fourth == "fourth_page.load_data"

Keys == {K_weather, K_second, K_third, K_client, K_fourth}
WeatherKeys == {K_weather, K_second, K_third}

Pages == {"home", "second", "third", "fourth"}

\* The loader each page script calls.
LoaderOf(p) ==
    CASE p = "home" -> K_weather
      [] p = "second" -> K_second
      [] p = "third" -> K_third
      [] p = "fourth" -> K_fourth

\* (mutant) load_data of the fourth page left without its decorator.
IsCachedExceptFourth(k) == k # K_fourth

\* Every loader carries @st.cache_data or @st.cache_resource.
IsCached(k) == TRUE

\* (mutant) the except branch re-raises instead of returning None.
OnReadErrorRaises(k) == [abort |-> TRUE, error |-> "exception", warned |-> 0, value |-> NoneValue]

\* What the body of a weather loader returns when the file cannot be read:
\* the except branches return None.
OnReadError(k) == [abort |-> FALSE, error |-> "", warned |-> 0, value |-> NoneValue]

\* What running the body of the memoized function k gives: a value to
\* store, or an abort (st.stop() or an exception leaving the body).
Producer(k) ==
    CASE k = K_weather ->
            IF csv.exists
            THEN [abort |-> FALSE, error |-> "", warned |-> 0, value |-> WeatherLoadData(csv)]
            ELSE OnReadError(k)
      [] k = K_second ->
            IF csv.exists
            THEN [abort |-> FALSE, error |-> "", warned |-> 0, value |-> WeatherLoadData(csv)]
            ELSE OnReadError(k)
      [] k = K_third ->
            IF csv.exists
            THEN [abort |-> FALSE, error |-> "", warned |-> 0, value |-> ThirdLoadData(csv)]
            ELSE OnReadError(k)
      [] k = K_client ->
            IF mongoOk
            THEN [abort |-> FALSE, error |-> "", warned |-> 0, value |-> ClientValue]
            ELSE [abort |-> TRUE, error |-> "exception", warned |-> 0, value |-> NoneValue]
      [] k = K_fourth ->
            LET r == FourthLoadData(records)
            IN  [abort |-> r.stopped, error |-> r.error, warned |-> r.warned,
                 value |-> r.value]

NoEntry == [ready |-> FALSE, value |-> NoneValue, warned |-> 0]
NoDiag == [warned |-> 0, error |-> ""]

Frame(k, phase) == [key |-> k, phase |-> phase]
Top(s) == stack[s][Len(stack[s])]
Calling(s) == pc[s] = "calling" /\ stack[s] # <<>>
SetTop(s, phase) == [stack[s] EXCEPT ![Len(stack[s])].phase = phase]
Pop(s) == SubSeq(stack[s], 1, Len(stack[s]) - 1)

\* Is a call to k open in some session?
Open(k) == \E t \in Sessions : \E i \in DOMAIN stack[t] : stack[t][i].key = k

InitCommon ==
    /\ cache = [k \in Keys |-> NoEntry]
    /\ lock = [k \in Keys |-> 0]
    /\ page = [s \in Sessions |-> "none"]
    /\ pc = [s \in Sessions |-> "idle"]
    /\ stack = [s \in Sessions |-> <<>>]
    /\ local = [s \in Sessions |-> NoneValue]
    /\ diag = [s \in Sessions |-> NoDiag]
    /\ session_state = [s \in Sessions |-> [has |-> FALSE, value |-> NoneValue]]
    /\ third = [s \in Sessions |-> NoOutput]
    /\ fourth = [s \in Sessions |-> NoFourthOutput]
    /\ runs = [k \in Keys |-> 0]
    /\ aborts = [k \in Keys |-> 0]
    /\ hits = [k \in Keys |-> 0]
    /\ waited = [k \in Keys |-> 0]
    /\ batchRuns = [k \in Keys |-> 0]
    /\ scriptRuns = 0
    /\ aggRuns = [a \in {} |-> 0]
    /\ summaries = [a \in {} |-> {}]

\* A session starts (or reruns) the script of page p. The home page calls
\* its loader only while 'weather_data' is not in the session state.
StartRun(s, p) ==
    /\ pc[s] \in {"idle", "done"}
    /\ scriptRuns < MaxRuns
    /\ scriptRuns' = scriptRuns + 1
    /\ page' = [page EXCEPT ![s] = p]
    /\ local' = [local EXCEPT ![s] = NoneValue]
    /\ diag' = [diag EXCEPT ![s] = NoDiag]
    /\ third' = [third EXCEPT ![s] = NoOutput]
    /\ fourth' = [fourth EXCEPT ![s] = NoFourthOutput]
    /\ IF p = "home" /\ session_state[s].has
       THEN /\ pc' = [pc EXCEPT ![s] = "done"]
            /\ UNCHANGED <<stack, batchRuns>>
       ELSE /\ pc' = [pc EXCEPT ![s] = "calling"]
            /\ stack' = [stack EXCEPT ![s] = <<Frame(LoaderOf(p), "lookup")>>]
            /\ batchRuns' = IF Open(LoaderOf(p)) THEN batchRuns
                            ELSE [batchRuns EXCEPT ![LoaderOf(p)] = 0]
    /\ UNCHANGED <<envVars, cache, lock, session_state, runs, aborts, hits, waited,
                   aggVars>>

\* The memoized call on top of s's stack returns the stored entry e: to the
\* producer that called it, or to the page script.
Deliver(s, e) ==
    IF Len(stack[s]) > 1
    THEN /\ stack' = [stack EXCEPT ![s] = [Pop(s) EXCEPT ![Len(stack[s]) - 1].phase =
                                               "haveClient"]]
         /\ UNCHANGED <<pc, local, diag>>
    ELSE /\ stack' = [stack EXCEPT ![s] = <<>>]
         /\ pc' = [pc EXCEPT ![s] = "loaded"]
         /\ local' = [local EXCEPT ![s] = e.value]
         /\ diag' = [diag EXCEPT ![s] = [warned |-> e.warned, error |-> ""]]

\* The wrapper's first look into the cache: a stored result is returned
\* without running the body; otherwise the caller goes for the lock.
CacheLookup(s) ==
    /\ Calling(s)
    /\ Top(s).phase = "lookup"
    /\ LET k == Top(s).key
       IN  IF IsCached(k) /\ cache[k].ready
           THEN /\ Deliver(s, cache[k])
                /\ hits' = [hits EXCEPT ![k] = @ + 1]
                /\ UNCHANGED <<runs, batchRuns>>
           ELSE IF IsCached(k)
           THEN /\ stack' = [stack EXCEPT ![s] = SetTop(s, "wait")]
                /\ UNCHANGED <<pc, local, diag, hits, runs, batchRuns>>
           ELSE /\ stack' = [stack EXCEPT ![s] = SetTop(s, "body")]
                /\ runs' = [runs EXCEPT ![k] = @ + 1]
                /\ batchRuns' = [batchRuns EXCEPT ![k] = @ + 1]
                /\ UNCHANGED <<pc, local, diag, hits>>
    /\ UNCHANGED <<envVars, cache, lock, page, session_state, outVars, aborts, waited,
                   scriptRuns, aggVars>>

\* Does the caller that now holds the lock find the result stored?
RecheckHit(k) == cache[k].ready

\* The caller takes the function's lock once it is free and looks again: a
\* result stored meanwhile is returned, otherwise the body starts.
AcquireLock(s) ==
    /\ Calling(s)
    /\ Top(s).phase = "wait"
    /\ lock[Top(s).key] = 0
    /\ LET k == Top(s).key
       IN  IF RecheckHit(k)
           THEN /\ Deliver(s, cache[k])
                /\ hits' = [hits EXCEPT ![k] = @ + 1]
                /\ waited' = [waited EXCEPT ![k] = @ + 1]
                /\ UNCHANGED <<lock, runs, batchRuns>>
           ELSE /\ lock' = [lock EXCEPT ![k] = s]
                /\ stack' = [stack EXCEPT ![s] = SetTop(s, "body")]
                /\ runs' = [runs EXCEPT ![k] = @ + 1]
                /\ batchRuns' = [batchRuns EXCEPT ![k] = @ + 1]
                /\ UNCHANGED <<pc, local, diag, hits, waited>>
    /\ UNCHANGED <<envVars, cache, page, session_state, outVars, aborts, scriptRuns,
                   aggVars>>

\* The body of fourth_page.load_data begins with client = get_mongo_client().
CallGetMongoClient(s) ==
    /\ Calling(s)
    /\ Top(s) = Frame(K_fourth, "body")
    /\ stack' = [stack EXCEPT ![s] = Append(SetTop(s, "client"), Frame(K_client, "lookup"))]
    /\ batchRuns' = IF Open(K_client) THEN batchRuns ELSE [batchRuns EXCEPT ![K_client] = 0]
    /\ UNCHANGED <<envVars, cache, lock, page, pc, local, diag, session_state, outVars,
                   runs, aborts, hits, waited, scriptRuns, aggVars>>

\* The body on top of s's stack runs to its end. A value is stored and
\* returned; st.stop() or an exception stores nothing, leaves every open
\* call of the session (releasing its locks) and ends the script run.
RunProducer(s) ==
    /\ Calling(s)
    /\ \/ Top(s).phase = "body" /\ Top(s).key # K_fourth
       \/ Top(s) = Frame(K_fourth, "haveClient")
    /\ LET k == Top(s).key
           r == Producer(k)
           open == {stack[s][i].key : i \in DOMAIN stack[s]}
       IN  IF r.abort
           THEN /\ lock' = [j \in Keys |-> IF lock[j] = s THEN 0 ELSE lock[j]]
                /\ aborts' = [j \in Keys |-> IF j \in open THEN aborts[j] + 1 ELSE aborts[j]]
                /\ stack' = [stack EXCEPT ![s] = <<>>]
                /\ pc' = [pc EXCEPT ![s] = "done"]
                /\ diag' = [diag EXCEPT ![s] = [warned |-> r.warned, error |-> r.error]]
                /\ UNCHANGED <<cache, local>>
           ELSE /\ cache' = IF IsCached(k)
                            THEN [cache EXCEPT ![k] = [ready |-> TRUE, value |-> r.value,
                                                       warned |-> r.warned]]
                            ELSE cache
                /\ lock' = [lock EXCEPT ![k] = IF lock[k] = s THEN 0 ELSE lock[k]]
                /\ Deliver(s, [ready |-> TRUE, value |-> r.value, warned |-> r.warned])
                /\ UNCHANGED aborts
    /\ UNCHANGED <<envVars, page, session_state, outVars, runs, hits, waited, batchRuns,
                   scriptRuns, aggVars>>

\* streamlit_app.py after the load: the result goes into the session state.
RenderHome(s) ==
    /\ pc[s] = "loaded"
    /\ page[s] = "home"
    /\ session_state' = [session_state EXCEPT ![s] = [has |-> TRUE, value |-> local[s]]]
    /\ pc' = [pc EXCEPT ![s] = "done"]
    /\ UNCHANGED <<envVars, cache, lock, page, stack, local, diag, outVars, runs, aborts,
                   hits, waited, batchRuns, scriptRuns, aggVars>>

\* second_page.py after the load: the statistics table is display only.
RenderSecond(s) ==
    /\ pc[s] = "loaded"
    /\ page[s] = "second"
    /\ pc' = [pc EXCEPT ![s] = "done"]
    /\ UNCHANGED <<envVars, cache, lock, page, stack, local, diag, session_state, outVars,
                   runs, aborts, hits, waited, batchRuns, scriptRuns, aggVars>>

\* third_page.py after the load, for the slider value sel.
RenderThird(s, sel) ==
    /\ pc[s] = "loaded"
    /\ page[s] = "third"
    /\ third' = [third EXCEPT ![s] = ThirdPageBody(local[s], sel)]
    /\ pc' = [pc EXCEPT ![s] = "done"]
    /\ UNCHANGED <<envVars, cache, lock, page, stack, local, diag, session_state, fourth,
                   runs, aborts, hits, waited, batchRuns, scriptRuns, aggVars>>

\* 04_fourth_page.py after the load, for the radio choice (the c-th price
\* area), the pills selection and the selectbox month. Every run computes
\* the production summary anew.
RenderFourth(s, c, selection, selected_month) ==
    /\ pc[s] = "loaded"
    /\ page[s] = "fourth"
    /\ LET price_areas == UniqueSorted(local[s].rows, "priceArea")
           area == IF price_areas = <<>> THEN NoArea
                   ELSE IF c > Len(price_areas) THEN price_areas[1] ELSE price_areas[c]
           out == FourthPageBody(local[s], area, selection, selected_month, argsortStable)
           seen == IF area \in DOMAIN aggRuns THEN aggRuns[area] ELSE 0
           had == IF area \in DOMAIN summaries THEN summaries[area] ELSE {}
       IN  /\ Range(selection) \subseteq Range(out.production_groups)
           /\ fourth' = [fourth EXCEPT ![s] = out]
           /\ aggRuns' = [a \in DOMAIN aggRuns \cup {area} |->
                             IF a = area THEN seen + 1 ELSE aggRuns[a]]
           /\ summaries' = [a \in DOMAIN summaries \cup {area} |->
                               IF a = area THEN had \cup {out.production_summary}
                               ELSE summaries[a]]
    /\ pc' = [pc EXCEPT ![s] = "done"]
    /\ UNCHANGED <<envVars, cache, lock, page, stack, local, diag, session_state, third,
                   runs, aborts, hits, waited, batchRuns, scriptRuns>>

\* ----------------------------------------------------------- specifications
\* The widget values a user can send.
WeatherTimes == Timestamps \cup {NaT}

\* Every label a well-formed month can have, and one that no month has.
UnknownLabel == <<"J", "a", "n", " ", "1", "9", "9", "9">>
Labels == {DisplayName(StrftimeYm(t)) : t \in Timestamps} \cup {UnknownLabel}

Selections == {SingleSel(l) : l \in Labels} \cup {PairSel(a, b) : a, b \in Labels}

GroupSelections == {<<>>, <<"hydro">>, <<"wind">>, <<"hydro", "wind">>}

\* The months of the selectbox (range(1, 13)) that are tried.
MonthChoices == {1, 2}

\* The widgets' defaults: the first price area, the first five production
\* groups, January.
DefaultGroups(s) == Slice(UniqueSorted(local[s].rows, "productionGroup"), 0, 5)

\* Several sessions open the four pages against one fixed source.
SampleCsv ==
    CsvFile(<<[year |-> 2020, month |-> 1], [year |-> 2020, month |-> 12]>>)
SampleRecords ==
    << Doc(Time(1), Time(1), Time(1), Text("NO1"), Text("hydro"), Num(2)),
       Doc(Time(2), Time(2), Time(2), Text("NO2"), Text("hydro"), Num(1)) >>

Init ==
    /\ csv \in {MissingFile, SampleCsv}
    /\ records \in {<<>>, SampleRecords}
    /\ mongoOk \in BOOLEAN
    /\ argsortStable \in BOOLEAN
    /\ InitCommon

Next ==
    \/ \E s \in Sessions, p \in Pages : StartRun(s, p)
    \/ \E s \in Sessions : CacheLookup(s)
    \/ \E s \in Sessions : AcquireLock(s)
    \/ \E s \in Sessions : CallGetMongoClient(s)
    \/ \E s \in Sessions : RunProducer(s)
    \/ \E s \in Sessions : RenderHome(s)
    \/ \E s \in Sessions : RenderSecond(s)
    \/ \E s \in Sessions : RenderThird(s, DefaultSel)
    \/ \E s \in Sessions : RenderFourth(s, 1, DefaultGroups(s), 1)

Spec == Init /\ [][Next]_vars

\* One session reruns the third page over any small CSV, with any slider
\* value.
InitFilter ==
    /\ csv \in {MissingFile} \cup {CsvFile(r) : r \in SeqsUpTo(WeatherTimes, MaxWeatherRows)}
    /\ records = <<>>
    /\ mongoOk = TRUE
    /\ argsortStable = TRUE
    /\ InitCommon

NextFilter ==
    \/ StartRun(1, "third")
    \/ CacheLookup(1)
    \/ AcquireLock(1)
    \/ RunProducer(1)
    \/ \E sel \in Selections : RenderThird(1, sel)

SpecFilter == InitFilter /\ [][NextFilter]_vars

\* Does a production summary hold two groups of equal total?
HasTie(summary) ==
    \E i, j \in DOMAIN summary :
        i # j /\ summary[i].total_production = summary[j].total_production

\* The ways the build's argsort can treat equal totals that make a
\* difference for a collection: both where some price area of the loaded
\* dataset has two groups of equal total, one (the stable one) where the
\* sort has no equal totals to place and every build sorts alike.
ArgsortKinds(recs) ==
    LET r == FourthLoadData(recs)
    IN  IF /\ ~r.stopped
           /\ \E a \in {r.value.rows[i].priceArea.v : i \in DOMAIN r.value.rows} :
                  HasTie(GroupSums(r.value.rows, a))
        THEN BOOLEAN ELSE {TRUE}

\* One session reruns the fourth page over any small collection, with any
\* widget values.
InitLoad ==
    /\ csv = MissingFile
    /\ records \in SeqsUpTo(RowShapes, MaxRecords)
    /\ mongoOk = TRUE
    /\ argsortStable \in ArgsortKinds(records)
    /\ InitCommon

NextLoad ==
    \/ StartRun(1, "fourth")
    \/ CacheLookup(1)
    \/ AcquireLock(1)
    \/ CallGetMongoClient(1)
    \/ RunProducer(1)
    \/ \E c \in 1..2, selection \in GroupSelections, m \in MonthChoices :
           RenderFourth(1, c, selection, m)

SpecLoad == InitLoad /\ [][NextLoad]_vars

\* ------------------------------------------------------------------ claims
\* The sessions in whose stack the body of k is running.
InBody(k) ==
    {s \in Sessions : \E i \in DOMAIN stack[s] :
        stack[s][i].key = k /\ stack[s][i].phase \in {"body", "client", "haveClient"}}

\* C1 as stated: while calls to a not-yet-ready key overlap, its producer
\* body is entered at most once.
C1_AtMostOncePerKey == \A k \in Keys : batchRuns[k] <= 1

\* C1, amended: per key at most one caller runs the producer body at a
\* time; every body entered but at most one was left by st.stop() or an
\* exception (which stores nothing, so the next caller enters the body
\* again); and a caller that was handed a value was handed the stored one.
C1_AtMostOnceUnlessAborted ==
    /\ \A k \in Keys :
          /\ Cardinality(InBody(k)) <= 1
          /\ runs[k] <= aborts[k] + 1
          /\ cache[k].ready => runs[k] = aborts[k] + 1
    /\ \A s \in Sessions :
          pc[s] = "loaded" =>
              /\ cache[LoaderOf(page[s])].ready
              /\ local[s] = cache[LoaderOf(page[s])].value

\* A caller waited for the lock while another computed, and was then
\* answered from the cache: the body ran once.
C1_Witness ==
    \E k \in Keys : waited[k] >= 1 /\ runs[k] = 1 /\ aborts[k] = 0

\* C2 as stated: the weather CSV is loaded at most once per process,
\* whichever pages ask for it.
C2_LoadedOncePerProcess == runs[K_weather] + runs[K_second] + runs[K_third] <= 1

\* C2, amended: each of the three weather loaders runs its body at most
\* once per process, and every call answered from a loader's cache found
\* the result of that one run; the loaders of different pages do not share
\* a cache entry.
C2_LoadedOncePerLoader ==
    \A k \in WeatherKeys :
        /\ runs[k] <= 1
        /\ aborts[k] = 0
        /\ hits[k] > 0 => cache[k].ready /\ runs[k] = 1 /\ cache[k].value = Producer(k).value

\* A second request for a page's dataset, from another session, was
\* answered from the cache of that page's loader.
C2_Witness ==
    \E k \in WeatherKeys :
        /\ hits[k] >= 1
        /\ runs[k] = 1
        /\ \E s, t \in Sessions : s # t /\ pc[s] = "done" /\ pc[t] = "done"
                                  /\ LoaderOf(page[s]) = k /\ LoaderOf(page[t]) = k

\* The sum of a function's values.
RECURSIVE SumFn(_)
SumFn(f) ==
    IF DOMAIN f = {} THEN 0
    ELSE LET x == CHOOSE x \in DOMAIN f : TRUE
         IN  f[x] + SumFn([y \in DOMAIN f \ {x} |-> f[y]])

\* The script runs of the fourth page that have got past the aggregation.
AggregatedRuns ==
    scriptRuns - aborts[K_fourth]
        - Cardinality({s \in Sessions : pc[s] \in {"calling", "loaded"}})

\* C3 as stated: the group-sum computation for a given price area runs at
\* most once, however often the aggregation is asked for.
C3_ComputedOnce == \A a \in DOMAIN aggRuns : aggRuns[a] <= 1

\* C3, amended: every run of the fourth page computes the production
\* summary anew (one computation per run, none answered from a cache), and
\* all the summaries computed for one price area are identical: the sums,
\* per production group, of quantityKwh over the cached dataset's rows of
\* that area.
C3_RecomputedIdentical ==
    /\ SumFn(aggRuns) = AggregatedRuns
    /\ \A a \in DOMAIN summaries :
          /\ Cardinality(summaries[a]) = 1
          /\ \A sm \in summaries[a] :
                LET rows == cache[K_fourth].value.rows
                    inArea == {i \in DOMAIN rows : rows[i].priceArea.v = a}
                IN  /\ {sm[j].productionGroup : j \in DOMAIN sm}
                          = {rows[i].productionGroup.v : i \in inArea}
                    /\ \A j \in DOMAIN sm :
                          sm[j].total_production =
                              SumSeq([i \in DOMAIN rows |->
                                  IF i \in inArea
                                     /\ rows[i].productionGroup.v = sm[j].productionGroup
                                  THEN rows[i].quantityKwh.v ELSE 0])

\* The aggregation was asked for twice with the same price area, over a
\* dataset with two production groups in it: it was computed twice, with
\* one and the same result.
C3_Witness ==
    \E a \in DOMAIN aggRuns :
        /\ aggRuns[a] = 2
        /\ Cardinality(summaries[a]) = 1
        /\ \A sm \in summaries[a] : Len(sm) = 2

\* A run of the third page that got as far as resolving a pair of labels
\* (both known), and the 1-based positions of the two labels.
ResolvedPair(s) ==
    /\ page[s] = "third"
    /\ pc[s] = "done"
    /\ third[s].status = "ok"
    /\ third[s].sel.kind = "tuple"

PosOf(s, label) == ListIndex(third[s].month_display_names, label) + 1

Chron(t) == 12 * t.year + t.month

\* The time whose 'Mon YYYY' label is the given one.
TimeOfLabel(label) ==
    CHOOSE t \in Timestamps : MonthAbbrev[t.month] \o <<" ">> \o Year4(t.year) = label

\* C5: for a single label, or a pair whose first label is at or before its
\* second in the sorted month list, the filtered dataset is exactly the
\* records (in arrival order) whose month lies between the two labels'
\* months, ends included.
C5_ExactlyTheSpan ==
    \A s \in Sessions :
        (/\ page[s] = "third" /\ pc[s] = "done" /\ third[s].status = "ok"
         /\ third[s].sel.kind \in {"str", "tuple"}
         /\ third[s].sel.kind = "tuple" =>
                PosOf(s, third[s].sel.start) <= PosOf(s, third[s].sel.end))
        => LET o == third[s]
               from == Chron(TimeOfLabel(o.sel.start))
               to == IF o.sel.kind = "str" THEN from ELSE Chron(TimeOfLabel(o.sel.end))
               rows == local[s].rows
           IN  o.filtered_df =
                   Mask(rows, [n \in DOMAIN rows |->
                                  from <= Chron(rows[n].time) /\ Chron(rows[n].time) <= to])

\* A range over a four-record dataset kept the three records of its span,
\* a month strictly inside the span among them, and left one out.
C5_Witness ==
    \E s \in Sessions :
        /\ ResolvedPair(s)
        /\ Len(third[s].selected_months) = 3
        /\ Len(third[s].filtered_df) = 3
        /\ Len(local[s].rows) = 4

\* A run of the third page that built its month mapping.
BuiltMapping(s) ==
    /\ page[s] = "third"
    /\ pc[s] = "done"
    /\ \/ third[s].status = "ok"
       \/ third[s].status = "failed" /\ third[s].error \in {"KeyError", "ValueError", "IndexError"}

\* C6: every year-month key of the dataset has a 'Mon YYYY' label that
\* month_mapping takes back to that key; no two keys share a label and no
\* key lacks one.
C6_LabelRoundTrip ==
    \A s \in Sessions :
        BuiltMapping(s) =>
            LET o == third[s]
                rows == local[s].rows
            IN  /\ Range(o.months) = {rows[n].month : n \in DOMAIN rows}
                /\ Len(o.month_display_names) = Len(o.months)
                /\ Cardinality(DOMAIN o.month_mapping) = Cardinality(Range(o.months))
                /\ \A n \in DOMAIN o.months :
                      /\ o.month_display_names[n] \in DOMAIN o.month_mapping
                      /\ o.month_mapping[o.month_display_names[n]] = o.months[n]
                /\ \A n \in DOMAIN rows :
                      LET label == MonthAbbrev[rows[n].time.month] \o <<" ">>
                                       \o Year4(rows[n].time.year)
                      IN  /\ label \in DOMAIN o.month_mapping
                          /\ o.month_mapping[label] = rows[n].month

\* A mapping over January and December of two years: four keys, four
\* labels.
C6_Witness ==
    \E s \in Sessions :
        /\ BuiltMapping(s)
        /\ Len(third[s].months) = 4
        /\ Cardinality(DOMAIN third[s].month_mapping) = 4

\* The slider value of a run names a label that is not in the mapping the
\* run built over a non-empty dataset.
UnknownSupplied(o) ==
    /\ o.month_display_names # <<>>
    /\ \/ o.sel.kind = "str" /\ o.sel.start \notin DOMAIN o.month_mapping
       \/ /\ o.sel.kind = "tuple"
          /\ \/ o.sel.start \notin DOMAIN o.month_mapping
             \/ o.sel.end \notin DOMAIN o.month_mapping

FourthReturned(s) == page[s] = "fourth" /\ pc[s] \in {"loaded", "done"} /\ diag[s].error = ""
FourthStopped(s) == page[s] = "fourth" /\ pc[s] = "done" /\ diag[s].error # ""
FourthEnded(s) == FourthReturned(s) \/ FourthStopped(s)

\* What the claims say of an input document.
HoldsList(doc) == \E c \in DOMAIN ScalarColumns : doc[ScalarColumns[c]].shape = "list"
Parseable(doc) == doc.startTime.shape = "scalar" /\ doc.startTime.v # 0
ListCount == Cardinality({i \in DOMAIN records : HoldsList(records[i])})
AllParseable == records # <<>> /\ \A i \in DOMAIN records : Parseable(records[i])
SecondaryTimesPresent ==
    /\ \E i \in DOMAIN records : records[i].endTime.shape # "absent"
    /\ \E i \in DOMAIN records : records[i].lastUpdatedTime.shape # "absent"

\* The fields of the documents that hold no list, in arrival order, as the
\* loaded dataset should carry them.
KeptFields(rows) ==
    [i \in DOMAIN rows |->
        <<rows[i].priceArea, rows[i].productionGroup, rows[i].quantityKwh>>]
ListFree == Mask(records, [i \in DOMAIN records |-> ~HoldsList(records[i])])

\* C8 as stated: N >= 1 documents with a parseable startTime, k of them
\* holding a list in a declared field, load to N - k records with a dropped
\* count of k, whichever fields the documents lack.
C8_CountAndKeep ==
    \A s \in Sessions :
        (FourthEnded(s) /\ AllParseable) =>
            /\ FourthReturned(s)
            /\ Len(local[s].rows) = Len(records) - ListCount
            /\ diag[s].warned = ListCount

\* C8, amended: the same holds provided endTime and lastUpdatedTime each
\* occur in at least one document; a document lacking a field is then kept
\* (with a missing value). When one of the two occurs in no document at all
\* the load reports the count and stops with an error instead.
C8_CountAndKeepIfTimeColumns ==
    \A s \in Sessions :
        (FourthEnded(s) /\ AllParseable) =>
            /\ diag[s].warned = ListCount
            /\ SecondaryTimesPresent =>
                  /\ FourthReturned(s)
                  /\ Len(local[s].rows) = Len(records) - ListCount
                  /\ KeptFields(local[s].rows) = KeptFields(ListFree)
                  /\ \A i \in DOMAIN local[s].rows :
                        (ListFree[i].endTime.shape = "absent") =>
                            local[s].rows[i].endTime = 0
            /\ ~SecondaryTimesPresent => FourthStopped(s)

\* Three documents, one with a list and one without endTime, were loaded:
\* one is reported dropped, and the one without endTime is among the two
\* kept.
C8_Witness ==
    \E s \in Sessions :
        /\ FourthReturned(s)
        /\ AllParseable
        /\ Len(records) = 3
        /\ diag[s].warned = 1
        /\ Len(local[s].rows) = 2
        /\ \E i \in DOMAIN ListFree : ListFree[i].endTime.shape = "absent"

\* The list-free documents whose startTime does not parse, and those that
\* have no startTime.
Unparsed == {i \in DOMAIN records : ~HoldsList(records[i]) /\ records[i].startTime = BadTime}
NoStart == {i \in DOMAIN records : ~HoldsList(records[i]) /\ records[i].startTime = AbsentT}

\* C9 as stated: a document whose startTime does not parse is dropped, the
\* load goes on, and the drop is part of the count shown to the caller.
C9_ParseDropCounted ==
    \A s \in Sessions :
        (FourthEnded(s) /\ Unparsed # {} /\ SecondaryTimesPresent) =>
            /\ FourthReturned(s)
            /\ \A i \in DOMAIN local[s].rows : local[s].rows[i].startTime # 0
            /\ diag[s].warned = Len(records) - Len(local[s].rows)

\* C9, amended: such a document is dropped and the load goes on, but the
\* drop is silent: the count shown to the caller is that of the documents
\* holding a list, and the loaded dataset is smaller than the input by
\* more than that count.
C9_ParseDropSilent ==
    \A s \in Sessions :
        (FourthEnded(s) /\ Unparsed # {} /\ SecondaryTimesPresent) =>
            /\ FourthReturned(s)
            /\ \A i \in DOMAIN local[s].rows : local[s].rows[i].startTime # 0
            /\ Len(local[s].rows) =
                   Len(records) - ListCount - Cardinality(Unparsed) - Cardinality(NoStart)
            /\ diag[s].warned = ListCount
            /\ diag[s].warned < Len(records) - Len(local[s].rows)

\* A load of three documents, one with a list and one with a startTime
\* that does not parse, returned one record and reported one drop.
C9_Witness ==
    \E s \in Sessions :
        /\ FourthReturned(s)
        /\ Len(records) = 3
        /\ Cardinality(Unparsed) = 1
        /\ ListCount = 1
        /\ Len(local[s].rows) = 1
        /\ diag[s].warned = 1

\* C10 as stated: load_data never hands an empty dataset to the rest of
\* the script.
C10_NoEmptyDataset ==
    \A s \in Sessions : FourthReturned(s) => local[s].rows # <<>>

\* The production summary a session's run of the fourth page computed.
Summarised(s) == page[s] = "fourth" /\ pc[s] = "done" /\ fourth[s].status # "none"
TotalOf(summary) == SumSeq([i \in DOMAIN summary |-> summary[i].total_production])

\* C11: every group's percentage is its sum over the total times 100 and
\* the percentages add up to 100 when the total is not zero; when the
\* total is zero every group's percentage is zero.
C11_PercentagesOrZero ==
    \A s \in Sessions :
        Summarised(s) =>
            LET summary == fourth[s].production_summary
                total == TotalOf(summary)
            IN  /\ \A i \in DOMAIN summary : summary[i].percentage.kind = "finite"
                /\ total # 0 =>
                      /\ \A i \in DOMAIN summary :
                            /\ summary[i].percentage.num = summary[i].total_production * 100
                            /\ summary[i].percentage.den = total
                      /\ SumSeq([i \in DOMAIN summary |-> summary[i].percentage.num])
                             = 100 * total
                /\ total = 0 =>
                      \A i \in DOMAIN summary : summary[i].percentage.num = 0

\* C12 as stated: the summary lists the groups by total descending, and
\* groups of equal total in ascending order of their name.
C12_DescendingTiesByKey ==
    \A s \in Sessions :
        Summarised(s) =>
            LET summary == fourth[s].production_summary
            IN  \A i, j \in DOMAIN summary :
                    i < j =>
                        \/ summary[i].total_production > summary[j].total_production
                        \/ /\ summary[i].total_production = summary[j].total_production
                           /\ NameRank(summary[i].productionGroup)
                                  < NameRank(summary[j].productionGroup)

\* The production groups of the dataset a session's script was handed.
GroupsOf(s) == {local[s].rows[i].productionGroup.v : i \in DOMAIN local[s].rows}

\* C13: an empty production-group selection is replaced by the one group
\* that is first in ascending order, a non-empty selection is used as it
\* is, and the line plot's rows are filtered by that non-empty selection.
\* (Over a dataset without any group there is no first group, and the run
\* ends at the replacement without filtering.)
C13_EmptySelectionFallsBack ==
    \A s \in Sessions :
        Summarised(s) =>
            LET o == fourth[s]
            IN  /\ o.status = "ok" =>
                      /\ o.selected_groups # <<>>
                      /\ o.pills # <<>> => o.selected_groups = o.pills
                      /\ o.pills = <<>> =>
                            /\ Len(o.selected_groups) = 1
                            /\ o.selected_groups[1] \in GroupsOf(s)
                            /\ \A g \in GroupsOf(s) :
                                  NameRank(o.selected_groups[1]) <= NameRank(g)
                      /\ o.filtered_df =
                             Mask(local[s].rows,
                                  [i \in DOMAIN local[s].rows |->
                                      /\ local[s].rows[i].priceArea.v = o.selected_area
                                      /\ local[s].rows[i].month = o.selected_month
                                      /\ \E n \in DOMAIN o.selected_groups :
                                            o.selected_groups[n]
                                                = local[s].rows[i].productionGroup.v])
                /\ o.status # "ok" => o.pills = <<>> /\ GroupsOf(s) = {}

\* A run over a dataset with the groups hydro and wind was given an empty
\* selection and plotted the hydro rows.
C13_Witness ==
    \E s \in Sessions :
        /\ Summarised(s)
        /\ fourth[s].status = "ok"
        /\ fourth[s].pills = <<>>
        /\ GroupsOf(s) = {"hydro", "wind"}
        /\ fourth[s].selected_groups = <<"hydro">>
        /\ fourth[s].filtered_df # <<>>

\* The documents a clean dataset can come from: those that hold no list
\* and whose startTime parses, in arrival order.
CleanSource ==
    Mask(records, [i \in DOMAIN records |-> ~HoldsList(records[i]) /\ Parseable(records[i])])

\* C14: every record of a dataset load_data returned has a startTime that
\* is not missing, comes from a document that holds no list in any of the
\* six declared fields (and carries that document's scalar values), and
\* has a month number in 1..12 whose month name is that number's entry in
\* the month_names table.
C14_CleanRecords ==
    \A s \in Sessions :
        FourthReturned(s) =>
            LET rows == local[s].rows
            IN  /\ Len(rows) = Len(CleanSource)
                /\ \A i \in DOMAIN rows :
                      /\ rows[i].startTime # 0
                      /\ rows[i].startTime = CleanSource[i].startTime.v
                      /\ \A c \in DOMAIN ScalarColumns :
                            CleanSource[i][ScalarColumns[c]].shape # "list"
                      /\ rows[i].priceArea = CleanSource[i].priceArea
                      /\ rows[i].productionGroup = CleanSource[i].productionGroup
                      /\ rows[i].quantityKwh = CleanSource[i].quantityKwh
                      /\ rows[i].priceArea.shape = "scalar"
                      /\ rows[i].productionGroup.shape = "scalar"
                      /\ rows[i].quantityKwh.shape = "scalar"
                      /\ rows[i].month \in 1..12
                      /\ rows[i].month = rows[i].startTime
                      /\ rows[i].month_name = month_names[rows[i].month]

\* Three documents, one of them holding a list, were loaded into a dataset
\* of a January and a February record.
C14_Witness ==
    \E s \in Sessions :
        /\ FourthReturned(s)
        /\ Len(records) = 3
        /\ ListCount = 1
        /\ Len(local[s].rows) = 2
        /\ local[s].rows[1].month_name = "January"
        /\ local[s].rows[2].month_name = "February"

====
